---------------------------- MODULE Spec2Model ----------------------------
(***************************************************************************)
(* Model of the Honda OBD1 bridge: the dispatcher loop() of src/src/main.cpp *)
(* and the ECU session object ECUData of src/src/hobd_uni2.cpp.             *)
(*                                                                         *)
(* Arrays keep the source's 0-based indices: an array of N bytes is a       *)
(* function on 0..N-1.  uint8_t values are integers 0..255 and every        *)
(* uint8_t computation is reduced with U8.                                  *)
(***************************************************************************)
EXTENDS Integers, Sequences, FiniteSets, TLC

\* ------------------------------------------------------------------ bounds

\* Number of command bytes the host sends in one run.
MaxCmds == 2

\* The clock read in the receive loop wraps after this many iterations with
\* no byte available (millis() wraps at 2^32).
MaxWait == 2

\* Number of live reads a polling host asks for in one run.
MaxPolls == 15

\* The raw RPM words of a row-0x00 reply go from 0 to this, plus 999 and 65535.
MaxRawRpm == 100
MaxStray == 1

\* ------------------------------------------------------- program constants

MSG_OFFSET == 3
RPL_OFFSET == 2
HOBD_CMD == 32
HOBD_RST == 33
HOBD_OFF_RPM == 0
HOBD_OFF_VSS == 2
HOBD_OFF_FLAG_08 == 8
HOBD_OFF_FLAG_0B == 11
HOBD_OFF_ECT == 16
HOBD_OFF_IAT == 17
HOBD_OFF_MAP == 18
HOBD_OFF_TPS == 20
HOBD_OFF_O2 == 21
HOBD_OFF_VOLT == 21
HOBD_OFF_ALTF == 24
HOBD_OFF_EL == 25
HOBD_OFF_ERRORS1 == 64
ErrLen == 14
DataLen == 20
ChecksumErr == 0
TimeoutErr == 1
MSG_LIVE == 129
MSG_DTC == 130
MSG_ACK == 131
MSG_ERR == 132
CMD_GET_LIVE == 1
CMD_GET_DTC == 2
CMD_RESET == 3
SOF1 == 170
SOF2 == 85
\* largest value of the target's 16-bit int
INT_MAX == 32767

\* ------------------------------------------------------------ arithmetic

Byte == 0..255

\* conversion to uint8_t
U8(x) == ((x % 256) + 256) % 256

\* C integer division (truncation toward zero), b > 0
TruncDiv(a, b) == IF a >= 0 THEN a \div b ELSE -((-a) \div b)

\* bit k of byte b
Bit(b, k) == (b \div (2 ^ k)) % 2 = 1

\* the array a with its first n entries, as a sequence
ToSeq(a, n) == [k \in 1..n |-> a[k - 1]]

\* the sequence s as an array on 0..Len(s)-1
ToArr(s) == [k \in 0..(Len(s) - 1) |-> s[k + 1]]

RECURSIVE SumRange(_, _, _)
\* buf[lo] + ... + buf[hi-1] in uint8_t arithmetic; the additions of the loop
\* are grouped in halves, which gives the same value modulo 256 and keeps the
\* evaluation shallow for a buffer of 255 bytes
SumRange(buf, lo, hi) ==
    IF hi <= lo THEN 0
    ELSE IF hi = lo + 1 THEN U8(buf[lo])
    ELSE LET mid == lo + ((hi - lo) \div 2)
         IN  U8(SumRange(buf, lo, mid) + SumRange(buf, mid, hi))

\* buf[0] + ... + buf[len-1] in uint8_t arithmetic (the loop of mkcrc)
SumTo(buf, len) == SumRange(buf, 0, len)

\* ECUData::mkcrc
mkcrc(buf, len) == U8(255 - (SumTo(buf, len) - 1))


\* ------------------------------------------------------- the ECU's replies

\* a 16-byte register row: the bytes given in f, zero elsewhere
Row(f) == [k \in 0..15 |-> IF k \in DOMAIN f THEN f[k] ELSE 0]

\* registers 0x00..0x0F: RPM word, VSS, flag bytes 0x08 and 0x0B
Rows00 ==
    { Row(0 :> 3 @@ 1 :> 231 @@ 2 :> 60 @@ 8 :> 10 @@ 11 :> 32),
      Row(0 :> 0 @@ 1 :> 255 @@ 2 :> 0 @@ 8 :> 129 @@ 11 :> 1) }

\* registers 0x10..0x1F: ECT, IAT, MAP, PA, TPS, O2 (0x15), battery (0x17),
\* alternator (0x18), electrical load (0x19)
Rows10 ==
    { Row(0 :> 25 @@ 1 :> 20 @@ 2 :> 100 @@ 3 :> 141 @@ 4 :> 24 @@ 5 :> 51
          @@ 7 :> 144 @@ 8 :> 128 @@ 9 :> 100),
      Row(0 :> 10 @@ 1 :> 30 @@ 2 :> 0 @@ 3 :> 0 @@ 4 :> 0 @@ 5 :> 102
          @@ 7 :> 150 @@ 8 :> 0 @@ 9 :> 0) }

\* registers 0x20..0x2F: fuel trims, injector word, ignition, limiter, IACV
Rows20 == { Row(0 :> 128 @@ 1 :> 140 @@ 4 :> 1 @@ 5 :> 244 @@ 6 :> 64 @@ 7 :> 24 @@ 8 :> 51) }

\* registers 0x30..0x3F: knock
Rows30 == { Row(12 :> 102) }

\* registers 0x40..0x4F: the trouble-code bitfield (14 bytes) and two more
Rows40 ==
    { Row(<<>>),
      Row(11 :> 16),
      Row(11 :> 1),
      Row(12 :> 16),
      Row(0 :> 16 @@ 3 :> 1),
      [k \in 0..15 |-> IF k < 14 THEN 17 ELSE 0] }

\* what the ECU can hold at the registers a request names
EcuPayloads(cmd, reg, rxlen) ==
    IF cmd = HOBD_RST \/ rxlen = 0 THEN { <<>> }
    ELSE IF reg = 0 THEN Rows00
    ELSE IF reg = 16 THEN Rows10
    ELSE IF reg = 32 THEN Rows20
    ELSE IF reg = 48 THEN Rows30
    ELSE Rows40

RECURSIVE EcuSum(_, _)
EcuSum(buf, n) == IF n = 0 THEN 0 ELSE EcuSum(buf, n - 1) + buf[n - 1]

\* the ECU's checksum byte: the sum of the whole reply is 0 modulo 256
EcuCrc(buf, n) == (256 - (EcuSum(buf, n) % 256)) % 256

\* a well-formed reply: 2 header bytes, rxlen payload bytes, checksum
EcuReplyOf(rxlen, payload) ==
    LET body == [k \in 0..(rxlen + 1) |->
                    IF k = 0 THEN 0
                    ELSE IF k = 1 THEN rxlen + 3
                    ELSE payload[k - 2]]
    IN  [k \in 0..(rxlen + 2) |-> IF k = rxlen + 2 THEN EcuCrc(body, rxlen + 2) ELSE body[k]]

\* positions at which the line corrupts one byte of a reply of n bytes
CorruptAt(n) == {IF n > 3 THEN 2 ELSE 0, n - 1}

\* numbers of bytes after which the ECU falls silent in a reply of n bytes
ShortLens(n) == {0, IF n > 5 THEN 5 ELSE n - 1}

\* what reaches the receive buffer of the ECU link for one request:
\* [bytes, fault] with fault "none", "corrupt" or "short"
EcuAnswers(cmd, reg, rxlen) ==
    LET n == rxlen + 3
        good == { EcuReplyOf(rxlen, p) : p \in EcuPayloads(cmd, reg, rxlen) }
    IN  { [bytes |-> ToSeq(r, n), fault |-> "none"] : r \in good }
        \cup { [bytes |-> ToSeq([r EXCEPT ![k] = U8(r[k] + 1)], n), fault |-> "corrupt"]
                 : r \in good, k \in CorruptAt(n) }
        \cup { [bytes |-> ToSeq(r, m), fault |-> "short"]
                 : r \in good, m \in ShortLens(n) }

\* ------------------------------------------------------------ the decoders

\* rx_u16: big-endian word at buffer[offset]
rx_u16(buffer, offset) == buffer[offset] * 256 + buffer[offset + 1]

\* (int)cnvt_tmp(x) for every byte x: the degree-5 polynomial evaluated in
\* floating point and truncated by the assignment to the int fields ect, iat
TempTable ==
    << 55, 52, 49, 46, 43, 40, 38, 35, 33, 30, 28, 25, 23, 21, 19, 17,
       15, 13, 11, 9, 7, 6, 4, 2, 1, 0, -2, -3, -4, -6, -7, -9,
       -10, -11, -12, -14, -15, -16, -17, -18, -19, -20, -21, -22, -23, -24, -25, -26,
       -27, -27, -28, -29, -30, -31, -31, -32, -33, -33, -34, -35, -35, -36, -37, -37,
       -38, -38, -39, -40, -40, -41, -41, -42, -42, -43, -43, -44, -44, -45, -45, -46,
       -46, -47, -47, -48, -48, -48, -49, -49, -50, -50, -51, -51, -52, -52, -52, -53,
       -53, -54, -54, -55, -55, -55, -56, -56, -57, -57, -57, -58, -58, -59, -59, -59,
       -60, -60, -61, -61, -62, -62, -62, -63, -63, -64, -64, -64, -65, -65, -66, -66,
       -66, -67, -67, -68, -68, -68, -69, -69, -70, -70, -71, -71, -71, -72, -72, -73,
       -73, -73, -74, -74, -75, -75, -75, -76, -76, -77, -77, -77, -78, -78, -79, -79,
       -79, -80, -80, -81, -81, -81, -82, -82, -83, -83, -83, -84, -84, -84, -85, -85,
       -86, -86, -86, -87, -87, -88, -88, -88, -89, -89, -90, -90, -90, -91, -91, -92,
       -92, -93, -93, -93, -94, -94, -95, -95, -96, -96, -96, -97, -97, -98, -98, -99,
       -99, -100, -100, -101, -101, -102, -103, -103, -104, -104, -105, -106, -106, -107, -108, -108,
       -109, -110, -110, -111, -112, -113, -113, -114, -115, -116, -117, -118, -119, -120, -121, -122,
       -123, -124, -125, -126, -127, -129, -130, -131, -133, -134, -135, -137, -138, -140, -141, -143 >>

cnvt_tmp(x) == TempTable[x + 1]

\* (int)(v * 0.716f - 5.0f), the assignment of conv_kpa(v) to the int maps, baro
conv_kpa(v) == TruncDiv(716 * v - 5000, 1000)

\* rpm = 1875000.0f / (rawRpm + 1.0f) stored in the 16-bit int rpm, then clamped
\* at 0.  A quotient above INT_MAX does not fit the int: the conversion is
\* undefined, and yields the low 16 bits of the long (negative ones clamp to 0)
\* or the saturated value.
RpmOf(rawRpm) ==
    LET q == 1875000 \div (rawRpm + 1)
        low == q % 65536
    IN  IF q <= INT_MAX THEN {q}
        ELSE {IF low > INT_MAX THEN 0 ELSE low, INT_MAX}

\* The float fields are kept in fixed point, truncated: o2 in 1/1000 V, volt in
\* 1/100 V, alt_fr in 1/100 %, eld in 1/100 A.
O2Of(raw) == (raw * 10000) \div 513
VoltOf(raw) == (raw * 10000) \div 1045
AltOf(raw) == (raw * 10000) \div 255
EldOf(raw) == 7706 - ((raw * 1000000) \div 25371)

\* row 1 of readLiveData (registers 0x00..): RPM, VSS, flags
DecodeRow0(s, d, rpm) ==
    LET f08 == d[RPL_OFFSET + HOBD_OFF_FLAG_08]
        f0B == d[RPL_OFFSET + HOBD_OFF_FLAG_0B]
    IN  [s EXCEPT !.rpm = rpm,
                  !.vss = d[RPL_OFFSET + HOBD_OFF_VSS],
                  !.sw_aircon = Bit(f08, 1),
                  !.sw_brake = Bit(f08, 3),
                  !.sw_starter = Bit(f08, 0),
                  !.sw_vtec = Bit(f08, 7),
                  !.main_relay = Bit(f0B, 0),
                  !.cel = Bit(f0B, 5)]

\* row 2 (registers 0x10..): temperatures, pressures, TPS, O2, battery, loads
DecodeRow1(s, d) ==
    [s EXCEPT !.ect = cnvt_tmp(d[RPL_OFFSET]),
              !.iat = cnvt_tmp(d[RPL_OFFSET + HOBD_OFF_IAT - HOBD_OFF_ECT]),
              !.maps = conv_kpa(d[RPL_OFFSET + HOBD_OFF_MAP - HOBD_OFF_ECT]),
              !.baro = conv_kpa(d[RPL_OFFSET + HOBD_OFF_MAP + 1 - HOBD_OFF_ECT]),
              !.tps = TruncDiv(d[RPL_OFFSET + HOBD_OFF_TPS - HOBD_OFF_ECT] - 24, 2),
              !.o2 = O2Of(d[RPL_OFFSET + HOBD_OFF_O2 - HOBD_OFF_ECT]),
              !.volt = VoltOf(d[RPL_OFFSET + HOBD_OFF_VOLT - HOBD_OFF_ECT]),
              !.alt_fr = AltOf(d[RPL_OFFSET + HOBD_OFF_ALTF - HOBD_OFF_ECT]),
              !.eld = EldOf(d[RPL_OFFSET + HOBD_OFF_EL - HOBD_OFF_ECT])]

\* row 3 (registers 0x20..): fuel trims, injector, ignition, limiter, IACV
DecodeRow2(s, d) ==
    [s EXCEPT !.sft = TruncDiv((d[RPL_OFFSET] - 128) * 100, 128),
              !.lft = TruncDiv((d[RPL_OFFSET + 1] - 128) * 100, 128),
              !.inj = rx_u16(d, RPL_OFFSET + 4) \div 250,
              !.ign = TruncDiv(d[8] - 24, 4),
              !.lmt = TruncDiv(d[9] - 24, 4),
              !.iacv = (d[10] * 100) \div 255]

\* row 4 (registers 0x30..): knock, then the derived maf, whose factor
\* (80 / 100) is the integer 0
DecodeRow3(s, d) ==
    [s EXCEPT !.knoc = d[14] \div 51,
              !.maf = 0]

\* the fields of ECUData that readLiveData writes, as the constructor leaves them
SnapInit ==
    [rpm |-> 0, vss |-> 0, sw_aircon |-> FALSE, sw_brake |-> FALSE,
     sw_starter |-> FALSE, sw_vtec |-> FALSE, main_relay |-> FALSE, cel |-> FALSE,
     ect |-> 0, iat |-> 0, maps |-> 0, baro |-> 0, tps |-> 0, o2 |-> 0, volt |-> 0,
     alt_fr |-> 0, eld |-> 0, sft |-> 0, lft |-> 0, inj |-> 0, ign |-> 0, lmt |-> 0,
     iacv |-> 0, knoc |-> 0, maf |-> 0]

\* high and low byte of an int16_t / uint16_t (x >> 8 and x & 0xFF as uint8_t)
Hi(x) == U8(x \div 256)
Lo(x) == U8(x)

\* pack_live: the 16-byte LIVE_DATA payload
pack_live(e) ==
    LET rpm == IF e.rpm > 0 THEN e.rpm ELSE 0
        ect == e.ect * 10
        iat == e.iat * 10
        map == e.maps * 10
        tps == e.tps * 10
        batt == e.volt
        o2mv == e.o2
        flags == (IF e.sw_aircon THEN 1 ELSE 0) + (IF e.sw_brake THEN 2 ELSE 0)
                 + (IF e.sw_vtec THEN 4 ELSE 0) + (IF e.cel THEN 8 ELSE 0)
    IN  ToArr(<< Hi(rpm), Lo(rpm), e.vss, Hi(ect), Lo(ect), Hi(iat), Lo(iat),
                 Hi(map), Lo(map), Hi(tps), Lo(tps), Hi(batt), Lo(batt),
                 Hi(o2mv), Lo(o2mv), flags >>)

\* ---------------------------------------------------------- the DTC scan

\* the renumbering of scanDtc's low-nibble branch: two tests in sequence
Renumber(v) ==
    LET a == IF v = 23 THEN 22 ELSE v
    IN  IF a = 24 THEN 23 ELSE a

\* the entry dtcErrs[k] after iteration k of scanDtc's loop: the high-nibble
\* branch stores k * 2, the low-nibble branch then stores k * 2 + 1 renumbered
ScanEntry(old, b, k) ==
    IF b % 16 # 0 THEN Renumber(k * 2 + 1)
    ELSE IF b \div 16 # 0 THEN k * 2
    ELSE old

\* the dtcLen++ of iteration k: one for each set nibble
ScanCount(b) == (IF b \div 16 # 0 THEN 1 ELSE 0) + (IF b % 16 # 0 THEN 1 ELSE 0)

RECURSIVE ScanTotal(_, _)
ScanTotal(d, n) == IF n = 0 THEN 0 ELSE ScanTotal(d, n - 1) + ScanCount(d[n + 1])

\* scanDtc after a successful transaction: the for loop over the 14 bitfield
\* bytes dlcData[2..15]; iteration k writes dtcErrs[k] only
ScanDecode(errs, d) ==
    [errs |-> [k \in 0..(ErrLen - 1) |-> ScanEntry(errs[k], d[k + 2], k)],
     len |-> ScanTotal(d, 14)]

\* ------------------------------------------------------- the host framing

\* sendFrame whose checksum byte covers the header only
sendFrame_hdr(type, payload, len) ==
    LET header == ToArr(<<SOF1, SOF2, type, len>>)
        crc == U8(mkcrc(header, 4))
    IN  <<SOF1, SOF2, type, len>> \o ToSeq(payload, len) \o <<crc>>

\* sendFrame with the checksum taken over the payload alone
sendFrame_payload(type, payload, len) ==
    LET crc == U8(mkcrc(payload, len))
    IN  <<SOF1, SOF2, type, len>> \o ToSeq(payload, len) \o <<crc>>

\* sendFrame: the bytes written to the host link
sendFrame(type, payload, len) ==
    LET header == ToArr(<<SOF1, SOF2, type, len>>)
        crc == U8(mkcrc(header, 4) + mkcrc(payload, len))
    IN  <<SOF1, SOF2, type, len>> \o ToSeq(payload, len) \o <<crc>>

\* values a read past the end of loop()'s payload array can return
StackBytes == {0, 165}

\* the DTC_LIST payload of loop(): count, then the first min(count, ErrLen)
\* entries of dtcErrs; the array has 1 + ErrLen bytes, and a frame length
\* above that reads the stack behind it (g)
DtcPayload(errs, len, g) ==
    [k \in 0..(IF len > ErrLen THEN len ELSE ErrLen) |->
        IF k = 0 THEN U8(len)
        ELSE IF k <= ErrLen /\ k <= U8(len) THEN errs[k - 1]
        ELSE g]

\* ------------------------------------------------------------------ state

VARIABLES
    pc,         \* where the program is: "setup", "loop", "dispatch", "call",
                \* "tx", "rx", "ret", "respond"
    cmd,        \* loop(): the command byte read
    row,        \* readLiveData: the transaction in progress, 0..3
    ecmd,       \* sendcmd: the EcuCmd, crc filled in
    tx,         \* sendcmd: the 5-byte frame
    txi,        \* sendcmd: bytes of tx written
    i,          \* sendcmd: bytes received
    elapsed,    \* sendcmd: millis() - tStart, saturated at MaxWait
    ok,         \* the value the last sendcmd returned
    dlcData,    \* ECUData: response buffer
    dtcErrs,    \* ECUData: trouble codes
    dtcLen,
    Errs,       \* ECUData: error log
    errLen,
    dlctmo,     \* ECUData: timeout counter
    snap,       \* ECUData: the fields readLiveData writes
    hostIn,     \* host link: command bytes sent and not yet read
    hostSent,   \* host link: command bytes sent so far
    frames,     \* host link: frames written since the last command byte was read
    dlcTx,      \* ECU link: bytes written since the last command byte was read
    dlcRx,      \* ECU link: bytes received and not yet read
    ecuReq,     \* ECU: the request it has received and not answered, or NoReq
    fault,      \* ECU link: what went wrong with the last answer
    stale       \* ECU link: how many bytes at the head of dlcRx were already
                \* pending when the request in progress had been written

vars == << pc, cmd, row, ecmd, tx, txi, i, elapsed, ok, dlcData, dtcErrs, dtcLen,
           Errs, errLen, dlctmo, snap, hostIn, hostSent, frames, dlcTx, dlcRx,
           ecuReq, fault, stale >>

\* the state of the ECUData object
session == << dlcData, dtcErrs, dtcLen, Errs, errLen, dlctmo, snap >>

\* the locals of sendcmd
locals == << ecmd, tx, txi, i, elapsed >>

NoReq == [cmd |-> 0, reg |-> 0, rxlen |-> 0, valid |-> FALSE]

\* command bytes the host sends: the three commands and two others
HostCmds == {CMD_GET_LIVE, CMD_GET_DTC, CMD_RESET, 4, 255}

\* the wake-up sequence of init()
startup == <<104, 106, 245, 175, 191, 179, 178, 193, 219, 179, 233>>

\* const uint16_t expected = rxlen + MSG_OFFSET
expected == ecmd.rxlen + MSG_OFFSET

Init ==
    /\ pc = "setup"
    /\ cmd = 0
    /\ row = 0
    /\ ecmd = [cmd |-> 0, txlen |-> 0, reg |-> 0, rxlen |-> 0, crc |-> 0]
    /\ tx = [k \in 0..4 |-> 0]
    /\ txi = 0
    /\ i = 0
    /\ elapsed = 0
    /\ ok = FALSE
    /\ dlcData = [k \in 0..(DataLen - 1) |-> 0]
    /\ dtcErrs = [k \in 0..(ErrLen - 1) |-> 0]
    /\ dtcLen = 0
    /\ Errs = [k \in 0..(ErrLen - 1) |-> ChecksumErr]
    /\ errLen = 0
    /\ dlctmo = 0
    /\ snap = SnapInit
    /\ hostIn = <<>>
    /\ hostSent = 0
    /\ frames = <<>>
    /\ dlcTx = <<>>
    /\ dlcRx = <<>>
    /\ ecuReq = NoReq
    /\ fault = "none"
    /\ stale = 0

\* ------------------------------------------------------------ environment

\* the host sends a command byte
HostSend ==
    /\ hostSent < MaxCmds
    /\ \E b \in HostCmds : hostIn' = Append(hostIn, b)
    /\ hostSent' = hostSent + 1
    /\ UNCHANGED << pc, cmd, row, locals, ok, session, frames, dlcTx, dlcRx, ecuReq, fault, stale >>

\* the ECU answers the request it received; the bytes that arrive are a
\* well-formed reply, one with a corrupted byte, or a reply cut short
EcuReply ==
    /\ ecuReq.valid
    /\ \E a \in EcuAnswers(ecuReq.cmd, ecuReq.reg, ecuReq.rxlen) :
          /\ dlcRx' = dlcRx \o a.bytes
          /\ fault' = a.fault
    /\ ecuReq' = NoReq
    /\ UNCHANGED << pc, cmd, row, locals, ok, session, hostIn, hostSent, frames, dlcTx, stale >>

\* ------------------------------------------------------------ the program

\* setup(): ECUData::init writes the wake-up sequence
Setup ==
    /\ pc = "setup"
    /\ dlcTx' = dlcTx \o startup
    /\ pc' = "loop"
    /\ UNCHANGED << cmd, row, locals, ok, session, hostIn, hostSent, frames, dlcRx, ecuReq, fault, stale >>

\* loop(): readCmdFrame takes one byte from the host link
LoopRead ==
    /\ pc = "loop"
    /\ hostIn # <<>>
    /\ cmd' = Head(hostIn)
    /\ hostIn' = Tail(hostIn)
    /\ frames' = <<>>
    /\ dlcTx' = <<>>
    /\ pc' = "dispatch"
    /\ UNCHANGED << row, locals, ok, session, hostSent, dlcRx, ecuReq, fault, stale >>

\* a readLiveData that clears the snapshot on entry
StartLive_clear ==
    /\ pc = "dispatch"
    /\ cmd = CMD_GET_LIVE
    /\ row' = 0
    /\ snap' = SnapInit
    /\ pc' = "call"
    /\ UNCHANGED << cmd, locals, ok, dlcData, dtcErrs, dtcLen, Errs, errLen, dlctmo,
                    hostIn, hostSent, frames, dlcTx, dlcRx, ecuReq, fault, stale >>

\* loop(): CMD_GET_LIVE enters readLiveData
StartLive ==
    /\ pc = "dispatch"
    /\ cmd = CMD_GET_LIVE
    /\ row' = 0
    /\ pc' = "call"
    /\ UNCHANGED << cmd, locals, ok, session, hostIn, hostSent, frames, dlcTx, dlcRx, ecuReq, fault, stale >>

\* loop(): CMD_GET_DTC enters scanDtc, which clears dtcLen
StartDtc ==
    /\ pc = "dispatch"
    /\ cmd = CMD_GET_DTC
    /\ dtcLen' = 0
    /\ pc' = "call"
    /\ UNCHANGED << cmd, row, locals, ok, dlcData, dtcErrs, Errs, errLen, dlctmo, snap,
                    hostIn, hostSent, frames, dlcTx, dlcRx, ecuReq, fault, stale >>

\* loop(): CMD_RESET enters resetEcu
StartReset ==
    /\ pc = "dispatch"
    /\ cmd = CMD_RESET
    /\ pc' = "call"
    /\ UNCHANGED << cmd, row, locals, ok, session, hostIn, hostSent, frames, dlcTx, dlcRx, ecuReq, fault, stale >>

\* the unknown-command branch entered after scanDtc's dtcLen = 0
UnknownCmd_clear ==
    /\ pc = "dispatch"
    /\ cmd \notin {CMD_GET_LIVE, CMD_GET_DTC, CMD_RESET}
    /\ frames' = Append(frames, sendFrame(MSG_ERR, ToArr(<<255>>), 1))
    /\ dtcLen' = 0
    /\ pc' = "loop"
    /\ UNCHANGED << cmd, row, locals, ok, dlcData, dtcErrs, Errs, errLen, dlctmo, snap,
                    hostIn, hostSent, dlcTx, dlcRx, ecuReq, fault, stale >>

\* loop(): any other command byte is answered with ERROR 0xFF
UnknownCmd ==
    /\ pc = "dispatch"
    /\ cmd \notin {CMD_GET_LIVE, CMD_GET_DTC, CMD_RESET}
    /\ frames' = Append(frames, sendFrame(MSG_ERR, ToArr(<<255>>), 1))
    /\ pc' = "loop"
    /\ UNCHANGED << cmd, row, locals, ok, session, hostIn, hostSent, dlcTx, dlcRx, ecuReq, fault, stale >>

\* the EcuCmd that readLiveData (by row), scanDtc and resetEcu build
CmdFor(c, r) ==
    IF c = CMD_GET_LIVE
      THEN [cmd |-> HOBD_CMD, txlen |-> 5, reg |-> 16 * r, rxlen |-> 16]
    ELSE IF c = CMD_GET_DTC
      THEN [cmd |-> HOBD_CMD, txlen |-> 5, reg |-> HOBD_OFF_ERRORS1, rxlen |-> 16]
    ELSE [cmd |-> HOBD_RST, txlen |-> 4, reg |-> 1, rxlen |-> 0]

\* the checksum sendcmd puts in tx[4]
TxCrc(c) == U8(255 - (c.cmd + c.txlen + c.reg + c.rxlen - 1))

\* sendcmd without the memset of dlcData
SendCmdBegin_nomemset ==
    /\ pc = "call"
    /\ LET c == CmdFor(cmd, row)
           crc == TxCrc(c)
       IN  /\ ecmd' = [cmd |-> c.cmd, txlen |-> c.txlen, reg |-> c.reg,
                       rxlen |-> c.rxlen, crc |-> crc]
           /\ tx' = ToArr(<<c.cmd, c.txlen, c.reg, c.rxlen, crc>>)
    /\ txi' = 0
    /\ pc' = "tx"
    /\ fault' = "none"
    /\ UNCHANGED << cmd, row, i, elapsed, ok, session, hostIn, hostSent, frames, dlcTx,
                    dlcRx, ecuReq, stale >>

\* sendcmd, up to the transmit loop: clears dlcData, builds tx
SendCmdBegin ==
    /\ pc = "call"
    /\ LET c == CmdFor(cmd, row)
           crc == TxCrc(c)
       IN  /\ ecmd' = [cmd |-> c.cmd, txlen |-> c.txlen, reg |-> c.reg,
                       rxlen |-> c.rxlen, crc |-> crc]
           /\ tx' = ToArr(<<c.cmd, c.txlen, c.reg, c.rxlen, crc>>)
    /\ dlcData' = [k \in 0..(DataLen - 1) |-> 0]
    /\ txi' = 0
    /\ pc' = "tx"
    /\ fault' = "none"
    /\ UNCHANGED << cmd, row, i, elapsed, ok, dtcErrs, dtcLen, Errs, errLen, dlctmo, snap,
                    hostIn, hostSent, frames, dlcTx, dlcRx, ecuReq, stale >>

\* a transmit loop that stops after four bytes: the checksum byte is written
\* by the first iteration of the receive phase
SendCmdWrite_four ==
    /\ \/ pc = "tx" /\ txi < 4
       \/ pc = "rx" /\ txi = 4
    /\ dlcTx' = Append(dlcTx, tx[txi])
    /\ txi' = txi + 1
    /\ IF txi = 3
         THEN /\ pc' = "rx"
              /\ i' = 0
              /\ elapsed' = 0
              /\ ecuReq' = [cmd |-> tx[0], reg |-> tx[2], rxlen |-> tx[3], valid |-> TRUE]
              /\ stale' = Len(dlcRx)
         ELSE UNCHANGED << pc, i, elapsed, ecuReq, stale >>
    /\ UNCHANGED << cmd, row, ecmd, tx, ok, session, hostIn, hostSent, frames, dlcRx, fault >>

\* sendcmd: one dlc.write(tx[i]); after the fifth the receive loop starts,
\* and the ECU has the request
SendCmdWrite ==
    /\ pc = "tx"
    /\ txi < 5
    /\ dlcTx' = Append(dlcTx, tx[txi])
    /\ txi' = txi + 1
    /\ IF txi = 4
         THEN /\ pc' = "rx"
              /\ i' = 0
              /\ elapsed' = 0
              /\ ecuReq' = [cmd |-> tx[0], reg |-> tx[2], rxlen |-> tx[3], valid |-> TRUE]
              /\ stale' = Len(dlcRx)
         ELSE UNCHANGED << pc, i, elapsed, ecuReq, stale >>
    /\ UNCHANGED << cmd, row, ecmd, tx, ok, session, hostIn, hostSent, frames, dlcRx, fault >>

\* sendcmd: the condition of the receive loop, while (i < expected)
RxLoopCond == i < expected

\* sendcmd: an iteration of the receive loop with a byte available
RxRead ==
    /\ pc = "rx"
    /\ RxLoopCond
    /\ dlcRx # <<>>
    /\ dlcData' = [dlcData EXCEPT ![i] = Head(dlcRx)]
    /\ dlcRx' = Tail(dlcRx)
    /\ i' = i + 1
    /\ stale' = IF stale > 0 THEN stale - 1 ELSE 0
    /\ UNCHANGED << pc, cmd, row, ecmd, tx, txi, elapsed, ok, dtcErrs, dtcLen, Errs, errLen,
                    dlctmo, snap, hostIn, hostSent, frames, dlcTx, ecuReq, fault >>

\* sendcmd: an iteration of the receive loop with no byte available; the loop
\* condition is i < expected alone, the clock is not consulted.  millis() is
\* a counter that wraps; here it wraps after MaxWait.
RxIdle ==
    /\ pc = "rx"
    /\ RxLoopCond
    /\ dlcRx = <<>>
    /\ elapsed' = (elapsed + 1) % (MaxWait + 1)
    /\ UNCHANGED << pc, cmd, row, ecmd, tx, txi, i, ok, session, hostIn, hostSent, frames,
                    dlcTx, dlcRx, ecuReq, fault, stale >>

\* Errs[errLen++] = kind.  The array has ErrLen entries; a store at an index
\* beyond them is undefined: in the object's layout the word behind Errs is
\* errLen itself, which the store overwrites, or the store lands in padding.
ErrAppend(E, n, kind) ==
    IF n < ErrLen
      THEN { [Errs |-> [E EXCEPT ![n] = kind], errLen |-> n + 1] }
      ELSE { [Errs |-> E, errLen |-> kind], [Errs |-> E, errLen |-> n + 1] }

\* sendcmd: the checksum comparison, calc != rxCrc
CrcMismatch(d, n) == mkcrc(d, n - 1) # d[n - 1]

\* sendcmd after the receive loop: the timeout branch, the checksum
\* verification, the return
SendCmdReturn ==
    /\ pc = "rx"
    /\ ~RxLoopCond
    /\ IF i < expected
         THEN /\ dlctmo' = dlctmo + 1
              /\ \E r \in ErrAppend(Errs, errLen, TimeoutErr) :
                    Errs' = r.Errs /\ errLen' = r.errLen
              /\ ok' = FALSE
         ELSE IF CrcMismatch(dlcData, expected)
         THEN /\ \E r \in ErrAppend(Errs, errLen, ChecksumErr) :
                    Errs' = r.Errs /\ errLen' = r.errLen
              /\ ok' = FALSE
              /\ UNCHANGED dlctmo
         ELSE /\ ok' = TRUE
              /\ UNCHANGED << Errs, errLen, dlctmo >>
    /\ pc' = "ret"
    /\ UNCHANGED << cmd, row, locals, dlcData, dtcErrs, dtcLen, snap, hostIn, hostSent,
                    frames, dlcTx, dlcRx, ecuReq, fault, stale >>

\* readLiveData that goes on to the next transaction after a failed one
LiveRow_goon ==
    /\ pc = "ret"
    /\ cmd = CMD_GET_LIVE
    /\ IF ~ok
         THEN UNCHANGED snap
         ELSE \/ /\ row = 0
                 /\ \E rpm \in RpmOf(rx_u16(dlcData, RPL_OFFSET + HOBD_OFF_RPM)) :
                       snap' = DecodeRow0(snap, dlcData, rpm)
              \/ /\ row = 1
                 /\ snap' = DecodeRow1(snap, dlcData)
              \/ /\ row = 2
                 /\ snap' = DecodeRow2(snap, dlcData)
              \/ /\ row = 3
                 /\ snap' = DecodeRow3(snap, dlcData)
    /\ IF row < 3
         THEN row' = row + 1 /\ pc' = "call"
         ELSE row' = row /\ pc' = "respond"
    /\ UNCHANGED << cmd, locals, ok, dlcData, dtcErrs, dtcLen, Errs, errLen, dlctmo,
                    hostIn, hostSent, frames, dlcTx, dlcRx, ecuReq, fault, stale >>

\* readLiveData after a transaction: return false on failure, else decode the
\* row and go on to the next transaction, or return true after the fourth
LiveRow ==
    /\ pc = "ret"
    /\ cmd = CMD_GET_LIVE
    /\ IF ~ok
         THEN /\ pc' = "respond"
              /\ UNCHANGED << row, snap >>
         ELSE /\ \/ /\ row = 0
                    /\ \E rpm \in RpmOf(rx_u16(dlcData, RPL_OFFSET + HOBD_OFF_RPM)) :
                          snap' = DecodeRow0(snap, dlcData, rpm)
                 \/ /\ row = 1
                    /\ snap' = DecodeRow1(snap, dlcData)
                 \/ /\ row = 2
                    /\ snap' = DecodeRow2(snap, dlcData)
                 \/ /\ row = 3
                    /\ snap' = DecodeRow3(snap, dlcData)
              /\ IF row < 3
                   THEN row' = row + 1 /\ pc' = "call"
                   ELSE row' = row /\ pc' = "respond"
    /\ UNCHANGED << cmd, locals, ok, dlcData, dtcErrs, dtcLen, Errs, errLen, dlctmo,
                    hostIn, hostSent, frames, dlcTx, dlcRx, ecuReq, fault, stale >>

\* scanDtc after its transaction: return false on failure, else run the scan
DtcDecode ==
    /\ pc = "ret"
    /\ cmd = CMD_GET_DTC
    /\ IF ok
         THEN LET st == ScanDecode(dtcErrs, dlcData)
              IN  dtcErrs' = st.errs /\ dtcLen' = dtcLen + st.len
         ELSE UNCHANGED << dtcErrs, dtcLen >>
    /\ pc' = "respond"
    /\ UNCHANGED << cmd, row, locals, ok, dlcData, Errs, errLen, dlctmo, snap,
                    hostIn, hostSent, frames, dlcTx, dlcRx, ecuReq, fault, stale >>

\* resetEcu after its transaction: the result is sendcmd's
ResetDone ==
    /\ pc = "ret"
    /\ cmd = CMD_RESET
    /\ pc' = "respond"
    /\ UNCHANGED << cmd, row, locals, ok, session, hostIn, hostSent, frames, dlcTx, dlcRx,
                    ecuReq, fault, stale >>

\* the frames loop() can write once the operation of command c has returned r
\* loop() with the live frame sent whatever readLiveData returned
ResponseFrames_live(c, r, e, errs, len) ==
    IF c = CMD_GET_LIVE
      THEN { sendFrame(MSG_LIVE, pack_live(e), 16) }
    ELSE IF c = CMD_GET_DTC
      THEN IF r THEN { sendFrame(MSG_DTC, DtcPayload(errs, len, g), U8(1 + U8(len)))
                         : g \in StackBytes }
                ELSE { sendFrame(MSG_ERR, ToArr(<<2>>), 1) }
    ELSE { sendFrame(MSG_ACK, ToArr(<<IF r THEN 1 ELSE 0>>), 1) }

ResponseFrames(c, r, e, errs, len) ==
    IF c = CMD_GET_LIVE
      THEN IF r THEN { sendFrame(MSG_LIVE, pack_live(e), 16) }
                ELSE { sendFrame(MSG_ERR, ToArr(<<1>>), 1) }
    ELSE IF c = CMD_GET_DTC
      THEN IF r THEN { sendFrame(MSG_DTC, DtcPayload(errs, len, g), U8(1 + U8(len)))
                         : g \in StackBytes }
                ELSE { sendFrame(MSG_ERR, ToArr(<<2>>), 1) }
    ELSE { sendFrame(MSG_ACK, ToArr(<<IF r THEN 1 ELSE 0>>), 1) }

\* loop() without the return after the error frame of a failed live read: the
\* LIVE_DATA frame follows it
Respond_noreturn ==
    /\ pc = "respond"
    /\ \E f \in ResponseFrames(cmd, ok, snap, dtcErrs, dtcLen) :
          frames' = IF cmd = CMD_GET_LIVE /\ ~ok
                      THEN frames \o <<f, sendFrame(MSG_LIVE, pack_live(snap), 16)>>
                      ELSE Append(frames, f)
    /\ pc' = "loop"
    /\ UNCHANGED << cmd, row, locals, ok, session, hostIn, hostSent, dlcTx, dlcRx, ecuReq, fault, stale >>

\* loop(): the frame after the operation, then back to the top of loop()
Respond ==
    /\ pc = "respond"
    /\ \E f \in ResponseFrames(cmd, ok, snap, dtcErrs, dtcLen) : frames' = Append(frames, f)
    /\ pc' = "loop"
    /\ UNCHANGED << cmd, row, locals, ok, session, hostIn, hostSent, dlcTx, dlcRx, ecuReq, fault, stale >>

\* ---------------------------------------------------------- specification

Program ==
    \/ Setup
    \/ LoopRead
    \/ StartLive
    \/ StartDtc
    \/ StartReset
    \/ UnknownCmd
    \/ SendCmdBegin
    \/ SendCmdWrite
    \/ RxRead
    \/ RxIdle
    \/ SendCmdReturn
    \/ LiveRow
    \/ DtcDecode
    \/ ResetDone
    \/ Respond

Next ==
    \/ HostSend
    \/ EcuReply
    \/ Program

Spec == Init /\ [][Next]_vars

\* The processor keeps executing the program; nothing is assumed of the host
\* or of the ECU.
FairSpec == Spec /\ WF_vars(Program)

\* ---------------------------------------------------------------------------
\* The same program on a link where the ECU also sends bytes nobody asked for
\* (its answer to the wake-up sequence of init, a byte after a reply).  The
\* receive buffer of the serial port keeps them until sendcmd reads: sendcmd
\* calls dlc.listen() and never empties the buffer before it writes.
\* ---------------------------------------------------------------------------
EcuStray ==
    /\ pc \notin {"setup", "rx"}
    /\ ~ecuReq.valid
    /\ Len(dlcRx) < MaxStray
    /\ dlcRx' = Append(dlcRx, 0)
    /\ UNCHANGED << pc, cmd, row, locals, ok, session, hostIn, hostSent, frames, dlcTx,
                    ecuReq, fault, stale >>

NextStray ==
    \/ HostSend
    \/ EcuReply
    \/ EcuStray
    \/ Program

StraySpec == Init /\ [][NextStray]_vars

\* A host that polls: it asks for live data, waits for the frame, asks again.
HostPoll ==
    /\ pc = "loop"
    /\ hostIn = <<>>
    /\ hostSent < MaxPolls
    /\ hostIn' = <<CMD_GET_LIVE>>
    /\ hostSent' = hostSent + 1
    /\ UNCHANGED << pc, cmd, row, locals, ok, session, frames, dlcTx, dlcRx, ecuReq, fault, stale >>

NextPoll ==
    \/ HostPoll
    \/ EcuReply
    \/ Setup
    \/ LoopRead
    \/ StartLive
    \/ SendCmdBegin
    \/ SendCmdWrite
    \/ RxRead
    \/ RxIdle
    \/ SendCmdReturn
    \/ LiveRow
    \/ Respond

PollSpec == Init /\ [][NextPoll]_vars

\* The verification step of sendcmd on its own: the receive loop of the first
\* transaction of a command has stored its last byte, and the bytes received
\* are a well-formed reply or one with a single byte changed to any other
\* value.
InitRx ==
    /\ pc = "rx"
    /\ cmd \in {CMD_GET_LIVE, CMD_GET_DTC, CMD_RESET}
    /\ row = 0
    /\ LET c == CmdFor(cmd, row)
       IN  /\ ecmd = [cmd |-> c.cmd, txlen |-> c.txlen, reg |-> c.reg,
                      rxlen |-> c.rxlen, crc |-> TxCrc(c)]
           /\ tx = ToArr(<<c.cmd, c.txlen, c.reg, c.rxlen, TxCrc(c)>>)
           /\ dlcTx = <<c.cmd, c.txlen, c.reg, c.rxlen, TxCrc(c)>>
           /\ \E p \in EcuPayloads(c.cmd, c.reg, c.rxlen) :
                 LET n == c.rxlen + 3
                     good == EcuReplyOf(c.rxlen, p)
                     pad(r) == [k \in 0..(DataLen - 1) |-> IF k < n THEN r[k] ELSE 0]
                 IN  \/ dlcData = pad(good) /\ fault = "none"
                     \/ /\ fault = "corrupt"
                        /\ \E k \in 0..(n - 1) : \E v \in Byte \ {good[k]} :
                              dlcData = pad([good EXCEPT ![k] = v])
           /\ i = c.rxlen + MSG_OFFSET
    /\ txi = 5
    /\ elapsed = 0
    /\ ok = FALSE
    /\ dtcErrs = [k \in 0..(ErrLen - 1) |-> 0]
    /\ dtcLen = 0
    /\ Errs = [k \in 0..(ErrLen - 1) |-> ChecksumErr]
    /\ errLen = 0
    /\ dlctmo = 0
    /\ snap = SnapInit
    /\ hostIn = <<>>
    /\ hostSent = 1
    /\ frames = <<>>
    /\ dlcRx = <<>>
    /\ ecuReq = NoReq
    /\ stale = 0

NextRx == SendCmdReturn

RxSpec == InitRx /\ [][NextRx]_vars

\* readLiveData from the return of a successful transaction on: the first
\* transaction with any RPM word of RawRpms and extreme speed and flag bytes,
\* or the second with every byte value in the fields of row 0x10.
RawRpms == (0..MaxRawRpm) \cup {999, 65535}

Row00Inputs ==
    { Row(0 :> (w \div 256) @@ 1 :> (w % 256) @@ 2 :> v @@ 8 :> f @@ 11 :> g) :
        w \in RawRpms, v \in {0, 255}, f \in {0, 138}, g \in {0, 32} }

Row10Inputs ==
    { Row(0 :> b @@ 1 :> b @@ 2 :> b @@ 3 :> b @@ 4 :> b @@ 5 :> b @@ 7 :> b
          @@ 8 :> b @@ 9 :> b) : b \in Byte }

\* the bytes readLiveData has written to the ECU link when transaction r returns
LiveRequests(r) ==
    IF r = 0 THEN <<32, 5, 0, 16, TxCrc(CmdFor(CMD_GET_LIVE, 0))>>
    ELSE <<32, 5, 0, 16, TxCrc(CmdFor(CMD_GET_LIVE, 0)),
           32, 5, 16, 16, TxCrc(CmdFor(CMD_GET_LIVE, 1))>>

InitLive ==
    /\ pc = "ret"
    /\ cmd = CMD_GET_LIVE
    /\ row \in {0, 1}
    /\ ok = TRUE
    /\ LET c == CmdFor(cmd, row)
       IN  /\ ecmd = [cmd |-> c.cmd, txlen |-> c.txlen, reg |-> c.reg,
                      rxlen |-> c.rxlen, crc |-> TxCrc(c)]
           /\ tx = ToArr(<<c.cmd, c.txlen, c.reg, c.rxlen, TxCrc(c)>>)
    /\ dlcTx = LiveRequests(row)
    /\ \E p \in (IF row = 0 THEN Row00Inputs ELSE Row10Inputs) :
          LET r == EcuReplyOf(16, p)
          IN  dlcData = [k \in 0..(DataLen - 1) |-> IF k < 19 THEN r[k] ELSE 0]
    /\ snap = IF row = 0 THEN SnapInit
              ELSE DecodeRow0(SnapInit, EcuReplyOf(16, Row(0 :> 3 @@ 1 :> 231 @@ 2 :> 60)), 1875)
    /\ txi = 5
    /\ i = 19
    /\ elapsed = 0
    /\ dtcErrs = [k \in 0..(ErrLen - 1) |-> 0]
    /\ dtcLen = 0
    /\ Errs = [k \in 0..(ErrLen - 1) |-> ChecksumErr]
    /\ errLen = 0
    /\ dlctmo = 0
    /\ hostIn = <<>>
    /\ hostSent = 1
    /\ frames = <<>>
    /\ dlcRx = <<>>
    /\ ecuReq = NoReq
    /\ fault = "none"
    /\ stale = 0

NextLive ==
    \/ EcuReply
    \/ SendCmdBegin
    \/ SendCmdWrite
    \/ RxRead
    \/ RxIdle
    \/ SendCmdReturn
    \/ LiveRow
    \/ Respond

LiveSpec == InitLive /\ [][NextLive]_vars

\* ---------------------------------------------------------------------------
\* sendFrame by itself, on types and payloads the program does not produce:
\* the type is held in cmd and the payload in hostIn.
\* ---------------------------------------------------------------------------
FrameTypes == {0, MSG_LIVE, MSG_DTC, MSG_ACK, MSG_ERR, 255}

FrameLens == {0, 1, 2, 16, 29, 251, 252, 255}

FramePayloads ==
    { [k \in 1..n |-> v] : n \in FrameLens, v \in {0, 1, 255} }
        \cup { [k \in 1..n |-> (7 * k + 3) % 256] : n \in FrameLens }

InitFrame ==
    /\ pc = "frame"
    /\ cmd \in FrameTypes
    /\ hostIn \in FramePayloads
    /\ row = 0
    /\ ecmd = [cmd |-> 0, txlen |-> 0, reg |-> 0, rxlen |-> 0, crc |-> 0]
    /\ tx = [k \in 0..4 |-> 0]
    /\ txi = 0
    /\ i = 0
    /\ elapsed = 0
    /\ ok = FALSE
    /\ dlcData = [k \in 0..(DataLen - 1) |-> 0]
    /\ dtcErrs = [k \in 0..(ErrLen - 1) |-> 0]
    /\ dtcLen = 0
    /\ Errs = [k \in 0..(ErrLen - 1) |-> ChecksumErr]
    /\ errLen = 0
    /\ dlctmo = 0
    /\ snap = SnapInit
    /\ hostSent = 0
    /\ frames = <<>>
    /\ dlcTx = <<>>
    /\ dlcRx = <<>>
    /\ ecuReq = NoReq
    /\ fault = "none"
    /\ stale = 0

SendFrameCall ==
    /\ pc = "frame"
    /\ frames' = << sendFrame(cmd, ToArr(hostIn), Len(hostIn)) >>
    /\ pc' = "sent"
    /\ UNCHANGED << cmd, row, locals, ok, session, hostIn, hostSent, dlcTx, dlcRx, ecuReq,
                    fault, stale >>

NextFrame == SendFrameCall

FrameSpec == InitFrame /\ [][NextFrame]_vars

\* ------------------------------------------------------------------ claims

\* number of command bytes read from the host link so far
CmdsRead == hostSent - Len(hostIn)

\* the checksum as the protocol states it: (0xFF - (s - 1)) mod 256 for
\* s = the sum of the n bytes modulo 256
ClaimCrc(buf, n) == (255 - ((EcuSum(buf, n) % 256) - 1)) % 256

\* a successful scanDtc has just returned to loop()
ScanSucceeded == pc = "respond" /\ cmd = CMD_GET_DTC /\ ok

\* C1: every ECU transaction terminates: when the ECU delivers fewer than
\* rxlen + 3 bytes, sendcmd eventually returns failure with the timeout counted
\* and logged, and a get-live-data command is then answered and the dispatcher
\* is back at the top of loop().
C1_ShortReplyTimesOut ==
    (pc = "rx" /\ fault = "short")
        ~> (pc = "ret" /\ ~ok /\ dlctmo > 0 /\ errLen > 0 /\ Errs[errLen - 1] = TimeoutErr)

\* the renumbering as the claims state it: 23 is stored as 22, 24 as 23
ClaimRenumber(v) == IF v = 23 THEN 22 ELSE IF v = 24 THEN 23 ELSE v

RECURSIVE Signaled(_, _)
\* the trouble codes the bitfield d[2..15] signals from byte index k - 1 down
\* to 0, in scan order
Signaled(d, k) ==
    IF k = 0 THEN <<>>
    ELSE LET b == d[k + 1]
         IN  Signaled(d, k - 1)
               \o (IF b \div 16 # 0 THEN <<ClaimRenumber(2 * (k - 1))>> ELSE <<>>)
               \o (IF b % 16 # 0 THEN <<ClaimRenumber(2 * (k - 1) + 1)>> ELSE <<>>)

\* C3: after a successful scanDtc the first dtcLen entries of dtcErrs are
\* exactly the trouble codes the current reply signals, in scan order.
C3_ListIsSignaledCodes ==
    ScanSucceeded =>
        LET want == Signaled(dlcData, 14)
        IN  /\ dtcLen = Len(want)
            /\ \A k \in 1..Len(want) : k <= ErrLen /\ dtcErrs[k - 1] = want[k]

\* C4: after a successful scanDtc dtcLen is at most the capacity 14, and a
\* DTC_LIST frame has a length byte of at most 15, the size of the payload
\* array sendFrame reads.
C4_DtcListBounded ==
    /\ ScanSucceeded => dtcLen <= ErrLen
    /\ \A k \in 1..Len(frames) : frames[k][3] = MSG_DTC => frames[k][4] <= 1 + ErrLen

\* C5: scanDtc stores the code of a set nibble renumbered: 23 as 22, 24 as 23,
\* every other code unchanged (the entry of byte index k holds the code of its
\* low nibble when that is set, else that of its high nibble).
C5_Renumbering ==
    ScanSucceeded =>
        \A k \in 0..13 :
            LET b == dlcData[k + 2]
            IN  /\ b % 16 # 0 => dtcErrs[k] = ClaimRenumber(2 * k + 1)
                /\ (b % 16 = 0 /\ b \div 16 # 0) => dtcErrs[k] = ClaimRenumber(2 * k)

\* C2: the dispatcher is one-command/one-response.  Per command byte read at
\* most one frame is written; a frame is written only when no transaction is in
\* progress and is the last thing done for the command; a command whose
\* operation has returned has exactly one frame; and a command byte is read
\* only after the frame of the one before it was written.
C2_OneCommandOneFrame ==
    /\ [](/\ Len(frames) <= 1
          /\ Len(frames) = 1 => pc = "loop"
          /\ (pc = "loop" /\ CmdsRead > 0) => Len(frames) = 1)
    /\ [][/\ CmdsRead' > CmdsRead => (CmdsRead = 0 \/ Len(frames) = 1)
          /\ (frames' # frames /\ frames' # <<>>) =>
                (pc \notin {"call", "tx", "rx", "ret"} /\ Len(dlcTx) % 5 = 0)]_vars

\* two commands were read; the second, a live read, ran its four transactions
\* and has its frame
C2_Witness ==
    pc = "loop" /\ CmdsRead = 2 /\ cmd = CMD_GET_LIVE /\ Len(dlcTx) = 20 /\ Len(frames) = 1

\* f is an ERROR frame with the one-byte payload code
IsErrFrame(f, code) ==
    Len(f) = 6 /\ f[1] = 170 /\ f[2] = 85 /\ f[3] = 132 /\ f[4] = 1 /\ f[5] = code

\* the last of the n received bytes is not the checksum of those before it
BadChecksum(d, n) == d[n - 1] # ClaimCrc(d, n - 1)

\* C6: a transaction that fails checksum verification appends ChecksumErr to
\* the error log; the one frame of a failed get-live-data command is ERROR [1]
\* and that of a failed get-DTC command is ERROR [2]; a DTC scan whose valid
\* reply signals no code is answered with a DTC_LIST frame of count 0.
C6_FailureReporting ==
    /\ [](/\ (pc = "loop" /\ Len(frames) = 1 /\ cmd = CMD_GET_LIVE /\ ~ok)
                => IsErrFrame(frames[1], 1)
          /\ (pc = "loop" /\ Len(frames) = 1 /\ cmd = CMD_GET_DTC /\ ~ok)
                => IsErrFrame(frames[1], 2)
          /\ (pc = "loop" /\ Len(frames) = 1 /\ cmd = CMD_GET_DTC /\ ok
                /\ \A k \in 2..15 : dlcData[k] = 0)
                => (Len(frames[1]) = 6 /\ frames[1][3] = 130 /\ frames[1][4] = 1
                    /\ frames[1][5] = 0)
          /\ (pc \in {"ret", "respond"} /\ ~ok) => BadChecksum(dlcData, expected))
    /\ [][(pc = "rx" /\ pc' = "ret" /\ BadChecksum(dlcData, expected)) =>
             (/\ ~ok'
              /\ errLen' = errLen + 1
              /\ errLen \in DOMAIN Errs
              /\ Errs' = [Errs EXCEPT ![errLen] = ChecksumErr])]_vars

\* the second transaction of a live read failed its checksum and the command
\* was answered
C6_Witness ==
    /\ pc = "loop" /\ cmd = CMD_GET_LIVE /\ ~ok /\ Len(frames) = 1
    /\ Len(dlcTx) = 10 /\ fault = "corrupt" /\ errLen > 0

\* C7, what holds of every reset whose transaction returns: it issues the
\* single transaction [0x21, 0x04, 0x01, 0x00, crc] expecting 3 reply bytes, is
\* answered with one ACK frame whose payload is [1] exactly when the
\* transaction succeeded and [0] otherwise, and changes neither the sensor
\* snapshot nor the DTC list.
C7_ResetAck ==
    /\ [](/\ (cmd = CMD_RESET /\ pc \in {"rx", "ret", "respond"})
                => (dlcTx = <<33, 4, 1, 0, 218>> /\ expected = 3)
          /\ (cmd = CMD_RESET /\ pc = "loop" /\ Len(frames) = 1)
                => /\ dlcTx = <<33, 4, 1, 0, 218>>
                   /\ Len(frames[1]) = 6
                   /\ frames[1][3] = 131
                   /\ frames[1][4] = 1
                   /\ frames[1][5] = (IF ok THEN 1 ELSE 0)
                   /\ ok <=> ~BadChecksum(dlcData, 3))
    /\ [][(cmd = CMD_RESET /\ pc \in {"dispatch", "call", "tx", "rx", "ret", "respond"})
             => UNCHANGED << snap, dtcErrs, dtcLen >>]_vars

\* a failed reset was acknowledged with [0] after a DTC scan had filled the list
C7_Witness ==
    /\ pc = "loop" /\ cmd = CMD_RESET /\ Len(frames) = 1 /\ ~ok
    /\ frames[1][5] = 0 /\ dtcLen > 0

\* C7: a reset command issues exactly one transaction (opcode 0x21, rxlen 0),
\* always yields exactly one ACK frame, with payload [1] if and only if the
\* transaction succeeded and [0] otherwise, never an ERROR frame, and changes
\* no snapshot field and no DTC-list entry.
C7_ResetAlwaysAcked ==
    /\ C7_ResetAck
    /\ (pc = "dispatch" /\ cmd = CMD_RESET)
          ~> (pc = "loop" /\ Len(frames) = 1 /\ frames[1][3] = 131)

\* C8: a command byte other than 0x01, 0x02, 0x03 is answered with the one
\* frame ERROR [0xFF]; nothing is written to the ECU link and the session
\* state is left as it was.
C8_UnknownCommand ==
    [][(pc = "dispatch" /\ cmd \notin {1, 2, 3} /\ pc' # pc) =>
          (/\ frames = <<>>
           /\ frames' = << <<170, 85, 132, 1, 255, 125>> >>
           /\ dlcTx = <<>>
           /\ dlcTx' = <<>>
           /\ pc' = "loop"
           /\ UNCHANGED session)]_vars

\* an unknown command byte was answered after a DTC scan had filled the list
C8_Witness ==
    pc = "loop" /\ cmd = 255 /\ Len(frames) = 1 /\ dtcLen > 0 /\ CmdsRead = 2

\* C9, with an empty error log: sendcmd returns success only if the last of
\* the rxlen + 3 received bytes is the checksum of those before it, and a
\* well-formed reply with any single byte changed to any other value is
\* rejected with ChecksumErr appended.
C9_ResponseIntegrity ==
    pc = "ret" =>
        /\ ok => dlcData[expected - 1] = ClaimCrc(dlcData, expected - 1)
        /\ fault = "corrupt" => (~ok /\ errLen = 1 /\ Errs[0] = ChecksumErr)

\* a DTC reply with one byte changed was rejected
C9_Witness ==
    pc = "ret" /\ cmd = CMD_GET_DTC /\ fault = "corrupt" /\ ~ok /\ errLen = 1

\* C9: sendcmd returns success only if the last of the rxlen + 3 received bytes
\* is the checksum of those before it, and a reply with a changed byte makes
\* sendcmd return failure and append ChecksumErr: the error log then ends with
\* that entry.
C9_RejectedReplyLogged ==
    /\ (pc = "ret" /\ ok) => ~BadChecksum(dlcData, expected)
    /\ (pc = "ret" /\ fault = "corrupt") =>
          (~ok /\ errLen \in 1..ErrLen /\ Errs[errLen - 1] = ChecksumErr)

\* C10: every frame on the host link is [0xAA, 0x55, type, len, payload, c]
\* with a type in 0x81..0x84, len payload bytes and c the sum modulo 256 of
\* the checksum of the header and the checksum of the payload; len is 16 for
\* live data, 1 + count for a DTC list, 1 for an ack and 1 for an error.
C10_FrameLayout ==
    \A k \in 1..Len(frames) :
        LET f == frames[k]
            n == Len(f)
        IN  /\ n >= 5
            /\ f[1] = 170
            /\ f[2] = 85
            /\ f[3] \in {129, 130, 131, 132}
            /\ n = f[4] + 5
            /\ f[n] = (ClaimCrc(ToArr(SubSeq(f, 1, 4)), 4)
                       + ClaimCrc(ToArr(SubSeq(f, 5, n - 1)), f[4])) % 256
            /\ f[3] = 129 => f[4] = 16
            /\ f[3] = 130 => (f[4] = 1 + dtcLen /\ f[5] = dtcLen)
            /\ f[3] \in {131, 132} => f[4] = 1

\* a DTC_LIST frame reporting two codes was written
C10_Witness ==
    Len(frames) = 1 /\ frames[1][3] = 130 /\ frames[1][4] = 3

\* the signed 16-bit value of a big-endian byte pair
S16(hi, lo) == IF hi * 256 + lo >= 32768 THEN hi * 256 + lo - 65536 ELSE hi * 256 + lo

\* the host's reading of a LIVE_DATA payload p (p[0] is the first payload
\* byte): the i16 fields are in tenths
ParseLive(p) ==
    [rpm |-> p[0] * 256 + p[1],
     vss |-> p[2],
     ect10 |-> S16(p[3], p[4]),
     iat10 |-> S16(p[5], p[6]),
     maps10 |-> S16(p[7], p[8]),
     tps10 |-> S16(p[9], p[10]),
     aircon |-> (p[15] % 2 = 1),
     brake |-> ((p[15] \div 2) % 2 = 1),
     vtec |-> ((p[15] \div 4) % 2 = 1),
     cel |-> ((p[15] \div 8) % 2 = 1)]

\* C11: the snapshot's rpm is 1875000 / (raw + 1) for the raw RPM word of the
\* reply just decoded (raw 0 gives 1,875,000), and the payload of every
\* LIVE_DATA frame parses back to the snapshot: rpm, vss, the temperatures,
\* MAP and TPS (tenths in the payload) and the four flags.
C11_LiveRoundTrip ==
    /\ (pc = "call" /\ cmd = CMD_GET_LIVE /\ row = 1 /\ ok)
          => snap.rpm = 1875000 \div (rx_u16(dlcData, 2) + 1)
    /\ (pc = "loop" /\ Len(frames) = 1 /\ frames[1][3] = 129)
          => LET h == ParseLive([k \in 0..15 |-> frames[1][k + 5]])
             IN  /\ h.rpm = snap.rpm
                 /\ h.vss = snap.vss
                 /\ h.ect10 = 10 * snap.ect
                 /\ h.iat10 = 10 * snap.iat
                 /\ h.maps10 = 10 * snap.maps
                 /\ h.tps10 = 10 * snap.tps
                 /\ h.aircon = snap.sw_aircon
                 /\ h.brake = snap.sw_brake
                 /\ h.vtec = snap.sw_vtec
                 /\ h.cel = snap.cel

\* the four requests of a live read as the protocol states them:
\* [0x20, 0x05, r, 0x10, (0xFF - (0x20 + 0x05 + r + 0x10 - 1)) mod 256]
LiveWire ==
    <<32, 5, 0, 16, 203, 32, 5, 16, 16, 187, 32, 5, 32, 16, 171, 32, 5, 48, 16, 155>>

\* C12: the bytes a live read writes to the ECU link are a prefix of the four
\* requests [0x20, 0x05, r, 0x10, c_r], r = 0x00, 0x10, 0x20, 0x30, in whole
\* requests whenever no request is being written; c_r is the checksum of the
\* four bytes before it; a request after the first is started only after the
\* transaction before it returned success; after a failed transaction nothing
\* more is written.
C12_LiveWireTrace ==
    /\ [](cmd = CMD_GET_LIVE =>
             /\ Len(dlcTx) <= 20
             /\ dlcTx = SubSeq(LiveWire, 1, Len(dlcTx))
             /\ pc # "tx" => Len(dlcTx) % 5 = 0
             /\ \A k \in 1..(Len(dlcTx) \div 5) :
                   dlcTx[5 * k] = ClaimCrc(ToArr(SubSeq(dlcTx, 5 * k - 4, 5 * k - 1)), 4))
    /\ [][cmd = CMD_GET_LIVE =>
             /\ (Len(dlcTx') > Len(dlcTx) /\ Len(dlcTx) % 5 = 0 /\ Len(dlcTx) > 0)
                   => (ok /\ row = Len(dlcTx) \div 5)
             /\ (~ok /\ pc \in {"ret", "respond"}) => dlcTx' = dlcTx]_vars

\* a live read whose third transaction failed was answered: three requests
\* are on the wire
C12_Witness ==
    pc = "loop" /\ cmd = CMD_GET_LIVE /\ ~ok /\ Len(dlcTx) = 15 /\ Len(frames) = 1

\* the snapshot fields decoded from the reply of transaction r + 1 (r = 0..3);
\* maf is derived after the fourth
RowFields(r) ==
    IF r = 0 THEN {"rpm", "vss", "sw_aircon", "sw_brake", "sw_starter", "sw_vtec",
                   "main_relay", "cel"}
    ELSE IF r = 1 THEN {"ect", "iat", "maps", "baro", "tps", "o2", "volt", "alt_fr", "eld"}
    ELSE IF r = 2 THEN {"sft", "lft", "inj", "ign", "lmt", "iacv"}
    ELSE {"knoc", "maf"}

\* C13: a live read changes the snapshot only when one of its transactions
\* has returned success, and then only the fields of that transaction's row,
\* which take the values decoded from the reply (maf with the fourth); so after
\* a failure at transaction k the fields of rows k..4 and maf are as before the
\* call and those of rows 1..k-1 are this call's, without rollback.
C13_PartialSnapshot ==
    [][/\ (pc # "ret" \/ ~ok \/ cmd # CMD_GET_LIVE) => snap' = snap
       /\ (pc = "ret" /\ ok /\ cmd = CMD_GET_LIVE /\ pc' # pc) =>
            /\ \A f \in DOMAIN snap \ RowFields(row) : snap'[f] = snap[f]
            /\ row = 0 => snap'.vss = dlcData[4]
            /\ row = 1 => snap'.o2 = (dlcData[7] * 10000) \div 513
            /\ row = 2 => snap'.inj = (dlcData[6] * 256 + dlcData[7]) \div 250
            /\ row = 3 => snap'.knoc = dlcData[14] \div 51]_vars

\* a live read that failed at its second transaction, after an earlier read
\* had filled the whole snapshot
C13_Witness ==
    /\ pc = "respond" /\ cmd = CMD_GET_LIVE /\ ~ok /\ row = 1 /\ CmdsRead = 2
    /\ snap.knoc = 2 /\ snap.o2 # 0

\* C14: the error log is bounded: errLen never exceeds the capacity 14, and
\* every append Errs[errLen++], made when sendcmd returns failure, writes an
\* index in 0..13.
C14_ErrorLogBounded ==
    /\ [](errLen <= ErrLen)
    /\ [][(pc = "rx" /\ pc' = "ret" /\ ~ok') =>
             (errLen \in 0..(ErrLen - 1) /\ errLen' = errLen + 1)]_vars

\* readLiveData has just decoded the reply of its second transaction, which
\* is still in dlcData
Row10Decoded == pc = "call" /\ cmd = CMD_GET_LIVE /\ row = 2 /\ ok

\* C15: of a row-0x10 reply, the battery voltage is decoded from the byte of
\* register 0x17 (reply index 9) and the O2 voltage from the byte of register
\* 0x15 (reply index 7): volt = byte / 10.45 in 1/100 V, o2 = byte / 51.3 in
\* 1/1000 V, so the byte of 0x15 has no part in the battery voltage.
C15_BatteryRegister ==
    Row10Decoded =>
        /\ snap.volt = (dlcData[9] * 10000) \div 1045
        /\ snap.o2 = (dlcData[7] * 10000) \div 513

\* C16: half-duplex ordering.  A byte is taken from the ECU link, or the link
\* is polled, only in the receive phase of sendcmd; that phase is entered by
\* the write of the fifth byte of the request and left only by the return of
\* sendcmd; and while it lasts nothing is written to the ECU link (outside
\* setup()'s wake-up sequence only sendcmd's transmit loop writes to it).
C16_HalfDuplex ==
    [][/\ (Len(dlcRx') < Len(dlcRx) \/ (pc' = pc /\ elapsed' # elapsed))
             => (pc = "rx" /\ txi = 5)
       /\ (pc' = "rx" /\ pc # "rx") =>
             /\ pc = "tx"
             /\ txi' = 5
             /\ Len(dlcTx') >= 5
             /\ SubSeq(dlcTx', Len(dlcTx') - 4, Len(dlcTx'))
                  = <<ecmd.cmd, ecmd.txlen, ecmd.reg, ecmd.rxlen, ecmd.crc>>
       /\ pc = "rx" => (dlcTx' = dlcTx /\ pc' \in {"rx", "ret"})
       /\ (dlcTx' # dlcTx /\ dlcTx' # <<>> /\ pc # "setup") => pc = "tx"]_vars

\* the second transaction of a command is part-way through its reply
C16_Witness ==
    pc = "rx" /\ i > 0 /\ i < expected /\ Len(dlcTx) = 10 /\ dlcRx # <<>>

\* C17: response buffer discipline.  The request's rxlen is 0x10 or 0x00; the
\* 20-byte buffer is all zero when the first reply byte is stored; a reply
\* byte is stored at the next index, below 20, and changes nothing else; and
\* when sendcmd returns success exactly rxlen + 3 bytes were stored, the last
\* of them the checksum of those before it.
C17_ResponseBuffer ==
    /\ [](/\ pc \in {"tx", "rx", "ret"} => tx[3] \in {0, 16}
          /\ (pc = "ret" /\ ok) =>
                /\ i = tx[3] + 3
                /\ dlcData[tx[3] + 2] = ClaimCrc(dlcData, tx[3] + 2)
                /\ \A k \in (tx[3] + 3)..19 : dlcData[k] = 0)
    /\ [][Len(dlcRx') < Len(dlcRx) =>
             /\ i < 20
             /\ i' = i + 1
             /\ i = 0 => \A k \in 0..19 : dlcData[k] = 0
             /\ dlcData' = [dlcData EXCEPT ![i] = Head(dlcRx)]]_vars

\* a DTC scan's transaction returned success with its 19 bytes stored
C17_Witness ==
    pc = "ret" /\ ok /\ cmd = CMD_GET_DTC /\ i = 19 /\ dlcData[13] = 16


\* C20: request/reply correlation on the ECU link: every byte that sendcmd
\* stores into the response buffer was sent by the ECU after the fifth byte
\* of the command of that transaction was written; a byte that was already
\* pending is never taken as part of the reply.
C20_ReplyCorrelation ==
    [][Len(dlcRx') < Len(dlcRx) => (pc = "rx" /\ stale = 0)]_vars

\* the places of the LIVE_DATA payload filled from row 0x00 and from row 0x10
PackedFrom(r) == IF r = 0 THEN {0, 1, 2, 15} ELSE 3..14

IsLiveFrame(f) == Len(f) = 21 /\ f[1] = SOF1 /\ f[2] = SOF2 /\ f[3] = MSG_LIVE /\ f[4] = 16

\* C18: every LIVE_DATA frame is consistent.  It is emitted only after four
\* checksum-valid replies received within the same host command, and every
\* field packed in it is decoded from the row 0x00 and row 0x10 replies of that
\* command: the frame packs the snapshot as it is at the end of the command;
\* the command starts at row 0 with nothing written, a row is left only by the
\* decode of a checksum-valid reply to that row's request, that decode sets
\* the packed places of its row from the reply alone, and they stay as they
\* are until the frame is sent.
C18_LiveFrameConsistent ==
    /\ [](\A n \in 1..Len(frames) : IsLiveFrame(frames[n]) =>
             /\ pc = "loop" /\ cmd = CMD_GET_LIVE /\ ok /\ row = 3
             /\ dlcTx = LiveWire
             /\ dlcData[18] = ClaimCrc(dlcData, 18)
             /\ frames = << sendFrame(MSG_LIVE, pack_live(snap), 16) >>)
    /\ [][cmd' = CMD_GET_LIVE =>
             /\ cmd' # cmd => (Len(dlcTx') = 0 /\ frames' = <<>> /\ pc' = "dispatch")
             /\ (pc = "dispatch" /\ pc' # pc) => (row' = 0 /\ Len(dlcTx') = 0)
             /\ (pc # "dispatch" /\ row' # row) =>
                   /\ pc = "ret" /\ ok /\ row' = row + 1
                   /\ Len(dlcTx) = 5 * row'
                   /\ dlcData[18] = ClaimCrc(dlcData, 18)
             /\ (pc = "ret" /\ ok /\ pc' # pc /\ row \in {0, 1}) =>
                   \E rpm \in RpmOf(rx_u16(dlcData, RPL_OFFSET + HOBD_OFF_RPM)) :
                      \A k \in PackedFrom(row) :
                         pack_live(snap')[k] =
                            pack_live(IF row = 0 THEN DecodeRow0(SnapInit, dlcData, rpm)
                                                 ELSE DecodeRow1(SnapInit, dlcData))[k]
             /\ (cmd = cmd' /\ pc \notin {"loop", "dispatch"}) =>
                   \A r \in 0..1 : (row > r \/ pc = "respond") =>
                      \A k \in PackedFrom(r) : pack_live(snap')[k] = pack_live(snap)[k]]_vars

\* the LIVE_DATA frame of a second live read, sent after an earlier read that
\* failed had left its row-0x00 values in the snapshot
C18_Witness ==
    /\ pc = "loop"
    /\ frames # <<>>
    /\ IsLiveFrame(frames[1])
    /\ CmdsRead = 2
    /\ errLen > 0

RECURSIVE FrameSum(_, _, _)
\* f[lo] + ... + f[hi] of a byte sequence, as an integer
FrameSum(f, lo, hi) ==
    IF hi < lo THEN 0
    ELSE IF hi = lo THEN f[lo]
    ELSE LET mid == lo + ((hi - lo) \div 2)
         IN  FrameSum(f, lo, mid) + FrameSum(f, mid + 1, hi)

\* C19: for every frame sendFrame emits, of any type and any payload of
\* length 0..255, the checksum byte is the checksum taken once over the
\* concatenation of header and payload; equivalently the sum of all bytes of
\* the frame, checksum included, is 0 modulo 256.
C19_FrameChecksum ==
    \A n \in 1..Len(frames) :
        LET f == frames[n]
            m == Len(f)
        IN  /\ m = Len(hostIn) + 5
            /\ SubSeq(f, 1, m - 1) = <<SOF1, SOF2, cmd, Len(hostIn)>> \o hostIn
            /\ f[m] = (255 - ((FrameSum(f, 1, m - 1) % 256) - 1)) % 256
            /\ FrameSum(f, 1, m) % 256 = 0

\* the frame of the longest payload, 255 bytes that are not all equal, under a
\* type the program does not use
C19_Witness ==
    /\ pc = "sent"
    /\ Len(frames) = 1
    /\ Len(hostIn) = 255
    /\ hostIn[1] = 10
    /\ cmd = 255

=========================================================================
